---- MODULE Spec2Model ----
(***************************************************************************)
(* Tumour measurement from a segmentation mask: model/size_location.py.    *)
(*                                                                         *)
(* Number representation.  The program computes with floats; the model    *)
(* keeps every value exact as an integer numerator over a fixed           *)
(* denominator:                                                            *)
(*   - a raw mask element v is held as RawDen * v  (0.5 is 1, 255 is 510), *)
(*   - a uint8 element (after astype(np.uint8)) is held as itself,         *)
(*   - PIXEL_SPACING s is held as SpDen * s        (0.5 is 1),             *)
(*   - a length in mm is held as SpDen * length,                           *)
(*   - an area in mm^2 is held as SpDen * SpDen * area,                    *)
(*   - a centroid coordinate is the pair (sum of coordinates, pixel count).*)
(* Comparisons of quotients are made by cross-multiplication, which agrees *)
(* with the float comparison for every grid the model explores (the       *)
(* operands are quotients of small integers, far apart compared with the  *)
(* rounding of a double).                                                  *)
(***************************************************************************)
EXTENDS Integers, Sequences, FiniteSets, TLC

VARIABLES
    pc,             \* position in analyze_mask_tif
    PIXEL_SPACING,  \* the module-level global of line 8 (numerator over SpDen)
    mask,           \* local `mask` of analyze_mask_tif (raw after line 63, uint8 after 64)
    mask_shape,     \* mask.shape = <<H, W>>
    img_supplied,   \* truthiness of original_image_path
    img_shape,      \* img.shape[:2] = <<h, w>>
    binary_mask,    \* local `binary_mask` of extract_tumor_info after line 35
    labels,         \* `labels` returned by cv2.connectedComponentsWithStats
    records,        \* the zipped columns returned by extract_tumor_info
    printed,        \* the lines printed by the loop of lines 101-102
    err             \* the exception the call ended with, or "none"

vars == <<pc, PIXEL_SPACING, mask, mask_shape, img_supplied, img_shape,
          binary_mask, labels, records, printed, err>>

\* ---------------------------------------------------------------- bounds
MaxH == 3
MaxW == 3
MaxCells == 9
MaxImg == 3

\* ------------------------------------------------------- representation
RawDen == 2
SpDen == 2
DefaultSpacing == 1

\* Raw element values a mask file may hold: 0, 0.5, 1 and 255.
RawValues == {0, 1, 2, 510}
\* Values the global PIXEL_SPACING may be bound to: -1, 0, 0.5, 1 mm/pixel.
SpacingValues == {-2, 0, 1, 2}

\* ------------------------------------------------------------- helpers
Min(S) == CHOOSE m \in S : \A n \in S : m <= n
Max(S) == CHOOSE m \in S : \A n \in S : m >= n

RECURSIVE SumOver(_, _)
SumOver(S, k) ==
    IF S = {} THEN 0
    ELSE LET p == CHOOSE q \in S : TRUE
         IN  p[k] + SumOver(S \ {p}, k)

\* Pixels of an H x W grid as <<row, column>>.
Pixels(shape) == (0 .. shape[1] - 1) \X (0 .. shape[2] - 1)

\* Mask shapes <<H, W>> and reference-image shapes the model explores.
Shapes == {s \in (1 .. MaxH) \X (1 .. MaxW) : s[1] * s[2] <= MaxCells}
ImgShapes == (1 .. MaxImg) \X (1 .. MaxImg)

NoGrid == <<>>
NoShape == <<0, 0>>

\* ----------------------------------------------------------- binarize
\* Mutant of Binarize: the threshold taken as >= 0.5.
BinarizeInclusive(m, den) == [p \in DOMAIN m |-> IF 2 * m[p] >= den THEN 1 ELSE 0]

\* (m > 0.5).astype(np.uint8), for a grid whose elements are held over den.
Binarize(m, den) == [p \in DOMAIN m |-> IF 2 * m[p] > den THEN 1 ELSE 0]

\* ------------------------------------------------------ determine_lobe
\* Mutant of determine_lobe: the comparisons taken as <=.
determine_lobe_inclusive(centroid, shape) ==
    LET h == shape[1]
        w == shape[2]
        hemisphere == IF 2 * centroid.sx <= w * centroid.n
                      THEN "Left Hemisphere" ELSE "Right Hemisphere"
        region == IF 3 * centroid.sy <= h * centroid.n THEN "Frontal Lobe"
                  ELSE IF 3 * centroid.sy <= 2 * h * centroid.n THEN "Parietal Lobe"
                  ELSE "Occipital/Temporal Lobe"
    IN  region \o " (" \o hemisphere \o ")"

determine_lobe(centroid, shape) ==
    LET h == shape[1]
        w == shape[2]
        hemisphere == IF 2 * centroid.sx < w * centroid.n
                      THEN "Left Hemisphere" ELSE "Right Hemisphere"
        region == IF 3 * centroid.sy < h * centroid.n THEN "Frontal Lobe"
                  ELSE IF 3 * centroid.sy < 2 * h * centroid.n THEN "Parietal Lobe"
                  ELSE "Occipital/Temporal Lobe"
    IN  region \o " (" \o hemisphere \o ")"

\* ---------------------------------- cv2.connectedComponentsWithStats
\* The library call of line 38.  OpenCV labels an 8-connected image with a
\* two-pass union-find over 2 x 2 blocks (all foreground pixels of a block
\* are 8-adjacent, so a block carries one label), and a 4-connected image
\* pixel by pixel.  The first pass scans the units row-major, gives a unit
\* whose foreground touches no earlier unit a new provisional label and
\* merges the labels of the earlier units it touches (the smaller root
\* wins); flattenL then renumbers the roots 1, 2, ... in provisional-label
\* order; the second pass writes each foreground pixel's final label.
DefaultConnectivity == 8

Abs(i) == IF i < 0 THEN -i ELSE i

\* Mutant of Adjacent: corners never count.
AdjacentEdgeOnly(p, q, connectivity) == Abs(p[1] - q[1]) + Abs(p[2] - q[2]) = 1

Adjacent(p, q, connectivity) ==
    LET dr == Abs(p[1] - q[1])
        dc == Abs(p[2] - q[2])
    IN  IF connectivity = 8 THEN p # q /\ dr <= 1 /\ dc <= 1
        ELSE dr + dc = 1

\* cv2 reads every non-zero element as foreground.
Foreground(image) == {p \in DOMAIN image : image[p] # 0}

\* Mutant of ScanUnit: the pixel-by-pixel scan for either connectivity.
ScanUnitPixel(connectivity) == 1

ScanUnit(connectivity) == IF connectivity = 8 THEN 2 ELSE 1

UnitCols(shape, connectivity) ==
    (shape[2] + ScanUnit(connectivity) - 1) \div ScanUnit(connectivity)

UnitRows(shape, connectivity) ==
    (shape[1] + ScanUnit(connectivity) - 1) \div ScanUnit(connectivity)

\* Row-major index (from 0) of the scan unit holding pixel p.
UnitOf(p, shape, connectivity) ==
    (p[1] \div ScanUnit(connectivity)) * UnitCols(shape, connectivity)
        + (p[2] \div ScanUnit(connectivity))

UnitPixels(image, shape, connectivity, k) ==
    {p \in Foreground(image) : UnitOf(p, shape, connectivity) = k}

RECURSIVE FindRoot(_, _)
FindRoot(P, i) == IF P[i] = i THEN i ELSE FindRoot(P, P[i])

\* First pass: st.P is the union-find parent array (1-based), st.L[k + 1] the
\* provisional label of unit k (0 for a unit without foreground).
RECURSIVE FirstScan(_, _, _, _, _)
FirstScan(image, shape, connectivity, k, st) ==
    IF k = UnitRows(shape, connectivity) * UnitCols(shape, connectivity) THEN st
    ELSE
      LET U == UnitPixels(image, shape, connectivity, k)
          touched == {j \in 0 .. k - 1 :
                        /\ st.L[j + 1] # 0
                        /\ \E p \in U :
                             \E q \in UnitPixels(image, shape, connectivity, j) :
                                Adjacent(p, q, connectivity)}
          roots == {FindRoot(st.P, st.L[j + 1]) : j \in touched}
          fresh == Len(st.P) + 1
      IN  IF U = {} THEN
              FirstScan(image, shape, connectivity, k + 1,
                        [P |-> st.P, L |-> Append(st.L, 0)])
          ELSE IF touched = {} THEN
              FirstScan(image, shape, connectivity, k + 1,
                        [P |-> Append(st.P, fresh), L |-> Append(st.L, fresh)])
          ELSE
              FirstScan(image, shape, connectivity, k + 1,
                        [P |-> [i \in DOMAIN st.P |->
                                   IF st.P[i] \in roots THEN Min(roots) ELSE st.P[i]],
                         L |-> Append(st.L, Min(roots))])

\* flattenL: roots get consecutive final labels from k, in index order.
RECURSIVE flattenL(_, _, _)
flattenL(P, i, k) ==
    IF i > Len(P) THEN P
    ELSE IF P[i] < i THEN flattenL([P EXCEPT ![i] = P[P[i]]], i + 1, k)
    ELSE flattenL([P EXCEPT ![i] = k], i + 1, k + 1)

LabelImage(image, shape, connectivity) ==
    LET st == FirstScan(image, shape, connectivity, 0, [P |-> <<>>, L |-> <<>>])
        F  == flattenL(st.P, 1, 1)
    IN  [p \in DOMAIN image |->
            IF image[p] = 0 THEN 0
            ELSE F[st.L[UnitOf(p, shape, connectivity) + 1]]]

\* Mutant of StatsRow: width and height as differences of the extreme coordinates.
StatsRowExclusive(lab, l) ==
    LET S == {p \in DOMAIN lab : lab[p] = l}
        left == Min({p[2] : p \in S})
        top  == Min({p[1] : p \in S})
    IN  IF S = {} THEN
            [left |-> 0, top |-> 0, width |-> 0, height |-> 0, area |-> 0,
             centroid |-> [sx |-> 0, sy |-> 0, n |-> 0]]
        ELSE
            [left |-> left, top |-> top,
             width  |-> Max({p[2] : p \in S}) - left,
             height |-> Max({p[1] : p \in S}) - top,
             area   |-> Cardinality(S),
             centroid |-> [sx |-> SumOver(S, 2), sy |-> SumOver(S, 1),
                           n |-> Cardinality(S)]]

\* Mutant of StatsRow: the centroid's coordinates exchanged.
StatsRowSwapped(lab, l) ==
    LET S == {p \in DOMAIN lab : lab[p] = l}
        left == Min({p[2] : p \in S})
        top  == Min({p[1] : p \in S})
    IN  IF S = {} THEN
            [left |-> 0, top |-> 0, width |-> 0, height |-> 0, area |-> 0,
             centroid |-> [sx |-> 0, sy |-> 0, n |-> 0]]
        ELSE
            [left |-> left, top |-> top,
             width  |-> Max({p[2] : p \in S}) - left + 1,
             height |-> Max({p[1] : p \in S}) - top + 1,
             area   |-> Cardinality(S),
             centroid |-> [sx |-> SumOver(S, 1), sy |-> SumOver(S, 2),
                           n |-> Cardinality(S)]]

\* One row of `stats` with its row of `centroids`, for label l.  The row of
\* a label without pixels (an image without background) is never read.
StatsRow(lab, l) ==
    LET S == {p \in DOMAIN lab : lab[p] = l}
        left == Min({p[2] : p \in S})
        top  == Min({p[1] : p \in S})
    IN  IF S = {} THEN
            [left |-> 0, top |-> 0, width |-> 0, height |-> 0, area |-> 0,
             centroid |-> [sx |-> 0, sy |-> 0, n |-> 0]]
        ELSE
            [left |-> left, top |-> top,
             width  |-> Max({p[2] : p \in S}) - left + 1,
             height |-> Max({p[1] : p \in S}) - top + 1,
             area   |-> Cardinality(S),
             centroid |-> [sx |-> SumOver(S, 2), sy |-> SumOver(S, 1),
                           n |-> Cardinality(S)]]

\* [num_labels, labels, stats] with stats[l + 1] the row of label l.
connectedComponentsWithStats(image, shape, connectivity) ==
    LET lab == LabelImage(image, shape, connectivity)
        num == 1 + Cardinality({lab[p] : p \in DOMAIN lab} \ {0})
    IN  [num_labels |-> num,
         labels |-> lab,
         stats  |-> [i \in 1 .. num |-> StatsRow(lab, i - 1)]]

\* ------------------------------------------------- extract_tumor_info
\* Mutant of DropBackground: the background row kept (stats[0:]).
KeepBackground(stats) == stats

\* stats[1:], centroids[1:]: the rows of labels 1 .. num_labels - 1.
DropBackground(stats) == SubSeq(stats, 2, Len(stats))

\* Mutant of AreaMm2: the spacing not squared (still over SpDen * SpDen).
AreaMm2Linear(size_px, spacing) == size_px * spacing * SpDen

\* tumor_sizes_px * (PIXEL_SPACING ** 2), over SpDen * SpDen.
AreaMm2(size_px, spacing) == size_px * spacing * spacing

\* tumor_heights_px * PIXEL_SPACING, over SpDen.
LengthMm(length_px, spacing) == length_px * spacing

TumorRecord(row, shape, spacing) ==
    [size_px   |-> row.area,
     size_mm2  |-> AreaMm2(row.area, spacing),
     bbox      |-> <<row.left, row.top, row.width, row.height>>,
     centroid  |-> row.centroid,
     height_mm |-> LengthMm(row.height, spacing),
     width_mm  |-> LengthMm(row.width, spacing),
     location  |-> determine_lobe(row.centroid, shape)]

\* The value of extract_tumor_info(m, shape) when PIXEL_SPACING is spacing
\* and m has the shape mshape; `binary` and `labels` are its locals.
extract_tumor_info(m, mshape, shape, spacing) ==
    LET binary == Binarize(m, 1)
        cc == connectedComponentsWithStats(binary, mshape, DefaultConnectivity)
        rows == DropBackground(cc.stats)
    IN  [binary |-> binary,
         labels |-> cc.labels,
         records |-> [i \in 1 .. Len(rows) |-> TumorRecord(rows[i], shape, spacing)]]

\* ------------------------------------------------------------- actions
Init ==
    /\ pc = "idle"
    /\ PIXEL_SPACING = DefaultSpacing
    /\ mask = NoGrid
    /\ mask_shape = NoShape
    /\ img_supplied = FALSE
    /\ img_shape = NoShape
    /\ binary_mask = NoGrid
    /\ labels = NoGrid
    /\ records = <<>>
    /\ printed = <<>>
    /\ err = "none"

\* The embedding process rebinds the module global between calls.
SetPixelSpacing ==
    /\ pc = "idle"
    /\ \E s \in SpacingValues : PIXEL_SPACING' = s
    /\ UNCHANGED <<pc, mask, mask_shape, img_supplied, img_shape, binary_mask,
                   labels, records, printed, err>>

\* Line 63: mask = tiff.imread(mask_path).  A mask file holds one element
\* value on a set of pixels and another on the rest.
ReadMask ==
    /\ pc = "idle"
    /\ \E shape \in Shapes :
         \E S \in SUBSET Pixels(shape) :
           \E a \in RawValues, b \in RawValues :
              /\ mask' = [p \in Pixels(shape) |-> IF p \in S THEN a ELSE b]
              /\ mask_shape' = shape
    /\ pc' = "read"
    /\ UNCHANGED <<PIXEL_SPACING, img_supplied, img_shape, binary_mask, labels,
                   records, printed, err>>

\* Line 64: mask = (mask > 0.5).astype(np.uint8).
BinarizeMask ==
    /\ pc = "read"
    /\ mask' = Binarize(mask, RawDen)
    /\ pc' = "binarized"
    /\ UNCHANGED <<PIXEL_SPACING, mask_shape, img_supplied, img_shape,
                   binary_mask, labels, records, printed, err>>

\* Lines 67-70: the reference image, or zeros_like(mask).
LoadImage ==
    /\ pc = "binarized"
    /\ \/ /\ img_supplied' = TRUE
          /\ \E s \in ImgShapes \cup {mask_shape} : img_shape' = s
       \/ /\ img_supplied' = FALSE
          /\ img_shape' = mask_shape
    /\ pc' = "loaded"
    /\ UNCHANGED <<PIXEL_SPACING, mask, mask_shape, binary_mask, labels,
                   records, printed, err>>

\* Line 73: extract_tumor_info(mask, img.shape).
Extract ==
    /\ pc = "loaded"
    /\ LET r == extract_tumor_info(mask, mask_shape, img_shape, PIXEL_SPACING)
       IN  /\ binary_mask' = r.binary
           /\ labels' = r.labels
           /\ records' = r.records
    /\ pc' = "extracted"
    /\ UNCHANGED <<PIXEL_SPACING, mask, mask_shape, img_supplied, img_shape,
                   printed, err>>

\* Lines 75-98: the figure.  mark_boundaries(img, mask) indexes the image
\* with the mask's boundary array and raises IndexError when the two
\* shapes differ; the exception leaves analyze_mask_tif.
Render ==
    /\ pc = "extracted"
    /\ IF img_shape = mask_shape
       THEN pc' = "rendered" /\ err' = err
       ELSE pc' = "failed" /\ err' = "IndexError"
    /\ UNCHANGED <<PIXEL_SPACING, mask, mask_shape, img_supplied, img_shape,
                   binary_mask, labels, records, printed>>

\* Lines 101-102: one printed line per tumour, in the records' order.
Report ==
    /\ pc = "rendered"
    /\ printed' = records
    /\ pc' = "done"
    /\ UNCHANGED <<PIXEL_SPACING, mask, mask_shape, img_supplied, img_shape,
                   binary_mask, labels, records, err>>

\* The call is over (returned None, or raised): its locals are gone.
Return ==
    /\ pc \in {"done", "failed"}
    /\ pc' = "idle"
    /\ mask' = NoGrid
    /\ mask_shape' = NoShape
    /\ img_supplied' = FALSE
    /\ img_shape' = NoShape
    /\ binary_mask' = NoGrid
    /\ labels' = NoGrid
    /\ records' = <<>>
    /\ printed' = <<>>
    /\ err' = "none"
    /\ UNCHANGED PIXEL_SPACING

Next ==
    \/ SetPixelSpacing
    \/ ReadMask
    \/ BinarizeMask
    \/ LoadImage
    \/ Extract
    \/ Render
    \/ Report
    \/ Return

Spec == Init /\ [][Next]_vars

\* ------------------------------------------------------------ claims
\* extract_tumor_info has returned: `binary_mask`, `labels`, `records` are set.
Extracted == pc \in {"extracted", "rendered", "failed", "done"}

\* The foreground of the mask handed to extract_tumor_info: values > 0.5.
InputForeground == {p \in DOMAIN mask : 2 * mask[p] > 1}

\* The pixels of the filled rectangle of width w, height h at offset (x0, y0).
RectPixels(x0, y0, w, h) == (y0 .. y0 + h - 1) \X (x0 .. x0 + w - 1)

\* C1: a mask whose foreground is exactly one filled axis-aligned rectangle
\* of width w and height h at (x0, y0), analysed under a positive spacing s,
\* gives exactly one record, with area_px = w*h, bbox (x0, y0, w, h) and
\* area_mm2 = w*h*s^2.
C1_SingleRectangle ==
    (pc = "extracted" /\ PIXEL_SPACING > 0) =>
        \A x0 \in 0 .. mask_shape[2] - 1, y0 \in 0 .. mask_shape[1] - 1 :
          \A w \in 1 .. mask_shape[2] - x0, h \in 1 .. mask_shape[1] - y0 :
            InputForeground = RectPixels(x0, y0, w, h) =>
                /\ Len(records) = 1
                /\ records[1].size_px = w * h
                /\ records[1].bbox = <<x0, y0, w, h>>
                /\ records[1].size_mm2 = w * h * PIXEL_SPACING * PIXEL_SPACING

C1_Witness ==
    /\ pc = "extracted"
    /\ PIXEL_SPACING = 2
    /\ InputForeground = RectPixels(1, 1, 2, 1)
    /\ InputForeground # DOMAIN mask
    /\ Len(records) = 1
    /\ records[1].bbox = <<1, 1, 2, 1>>

\* C2: every record's label is "<band> Lobe (<hemisphere> Hemisphere)" with
\* hemisphere Left iff cx < W/2 and band Frontal iff cy < H/3, Parietal iff
\* H/3 <= cy < 2H/3, Occipital/Temporal iff cy >= 2H/3, for the centroid
\* (cx, cy) and the shape (H, W) handed to the classifier, inside or
\* outside the image.
C2_Classification ==
    Extracted =>
        \A i \in 1 .. Len(records) :
            LET c == records[i].centroid
                H == img_shape[1]
                W == img_shape[2]
                left == 2 * c.sx < W * c.n
                frontal == 3 * c.sy < H * c.n
                parietal == H * c.n <= 3 * c.sy /\ 3 * c.sy < 2 * H * c.n
                occipital == 3 * c.sy >= 2 * H * c.n
                loc == records[i].location
            IN  /\ loc \in {b \o " Lobe (" \o s \o " Hemisphere)" :
                              b \in {"Frontal", "Parietal", "Occipital/Temporal"},
                              s \in {"Left", "Right"}}
                /\ left <=> loc \in {b \o " Lobe (Left Hemisphere)" :
                                       b \in {"Frontal", "Parietal", "Occipital/Temporal"}}
                /\ frontal <=> loc \in {"Frontal Lobe (" \o s \o " Hemisphere)" :
                                          s \in {"Left", "Right"}}
                /\ parietal <=> loc \in {"Parietal Lobe (" \o s \o " Hemisphere)" :
                                           s \in {"Left", "Right"}}
                /\ occipital <=> loc \in {"Occipital/Temporal Lobe (" \o s \o " Hemisphere)" :
                                            s \in {"Left", "Right"}}

\* A centroid at cy = H/3 exactly and cx = W/2 exactly, and, in the same
\* call, a centroid below the image's last row.
C2_Witness ==
    /\ pc = "extracted"
    /\ Len(records) = 2
    /\ 3 * records[1].centroid.sy = img_shape[1] * records[1].centroid.n
    /\ 2 * records[1].centroid.sx = img_shape[2] * records[1].centroid.n
    /\ records[1].location = "Parietal Lobe (Right Hemisphere)"
    /\ records[2].centroid.sy >= img_shape[1] * records[2].centroid.n
    /\ records[2].location = "Occipital/Temporal Lobe (Left Hemisphere)"

\* C3: in every record area_mm2 = area_px * s^2, height_mm = bbox height * s
\* and width_mm = bbox width * s for the spacing s in force during the call
\* (0.5 unless rebound).
C3_PhysicalUnits ==
    Extracted =>
        \A i \in 1 .. Len(records) :
            /\ records[i].size_mm2 = records[i].size_px * PIXEL_SPACING * PIXEL_SPACING
            /\ records[i].height_mm = records[i].bbox[4] * PIXEL_SPACING
            /\ records[i].width_mm = records[i].bbox[3] * PIXEL_SPACING

C3_Witness ==
    /\ pc = "done"
    /\ PIXEL_SPACING = DefaultSpacing
    /\ Len(records) = 2
    /\ records[1].bbox[3] # records[1].bbox[4]
    /\ records[1].size_px = 3
    /\ records[1].size_mm2 = 3
    /\ records[1].height_mm = 1

\* C4: a mask without any element above 0.5 gives no record, and the call
\* ends without an error (a reference image of another shape aside, which
\* is the business of C8).
C4_NoForeground ==
    (Extracted /\ InputForeground = {}) =>
        /\ records = <<>>
        /\ pc = "done" => printed = <<>>
        /\ img_shape = mask_shape => (err = "none" /\ pc # "failed")

C4_Witness ==
    /\ pc = "done"
    /\ mask_shape = <<3, 3>>
    /\ InputForeground = {}
    /\ records = <<>>
    /\ err = "none"

\* Two distinct pixels that touch by an edge or a corner.
Touch8(p, q) ==
    /\ p # q
    /\ p[1] - q[1] \in {-1, 0, 1}
    /\ p[2] - q[2] \in {-1, 0, 1}

\* The pixels of F joined to S by a chain of pixels of F, each touching the next.
RECURSIVE Reach(_, _)
Reach(F, S) ==
    LET N == {q \in F \ S : \E p \in S : Touch8(p, q)}
    IN  IF N = {} THEN S ELSE Reach(F, S \cup N)

RegionOf(i) == {p \in DOMAIN labels : labels[p] = i}

FirstPixel(R) == Min({p[1] * mask_shape[2] + p[2] : p \in R})

\* Position of a region's first 2 x 2 block in a row-major scan of the blocks
\* (block row k holds pixel rows 2k and 2k + 1).
FirstBlock(R) ==
    Min({(p[1] \div 2) * ((mask_shape[2] + 1) \div 2) + (p[2] \div 2) : p \in R})

\* Record i is the row of label i: its area and the corner of its bounding box.
RecordOfLabel(i) ==
    /\ RegionOf(i) # {}
    /\ records[i].size_px = Cardinality(RegionOf(i))
    /\ records[i].bbox[1] = Min({p[2] : p \in RegionOf(i)})
    /\ records[i].bbox[2] = Min({p[1] : p \in RegionOf(i)})

C7_InvalidConfiguration ==
    (Extracted /\ PIXEL_SPACING <= 0) =>
        (err = "InvalidConfiguration" /\ records = <<>>)

\* C8 as stated: with a reference image whose shape differs from the mask's
\* the call fails with ShapeMismatch before any region is extracted, any
\* label computed or any record produced.
C8_ShapeMismatch ==
    (img_supplied /\ img_shape # mask_shape /\ pc \notin {"idle", "read", "binarized", "loaded"}) =>
        /\ err = "ShapeMismatch"
        /\ labels = NoGrid
        /\ records = <<>>

\* C9: every region of an H x W mask has a label >= 1, an area >= 1, a
\* bounding box inside the mask with width and height >= 1, and a centroid
\* inside its bounding box.
C9_RegionInvariants ==
    Extracted =>
        /\ \A p \in DOMAIN labels : labels[p] \in 0 .. Len(records)
        /\ \A i \in 1 .. Len(records) :
              LET r == records[i]
                  x == r.bbox[1]
                  y == r.bbox[2]
                  w == r.bbox[3]
                  h == r.bbox[4]
              IN  /\ RecordOfLabel(i)
                  /\ r.size_px >= 1
                  /\ x >= 0 /\ y >= 0 /\ w >= 1 /\ h >= 1
                  /\ x + w <= mask_shape[2]
                  /\ y + h <= mask_shape[1]
                  /\ r.centroid.n = r.size_px
                  /\ x * r.centroid.n <= r.centroid.sx
                  /\ r.centroid.sx <= (x + w - 1) * r.centroid.n
                  /\ y * r.centroid.n <= r.centroid.sy
                  /\ r.centroid.sy <= (y + h - 1) * r.centroid.n

\* An L-shaped region in the mask's last rows and columns, and a one-pixel region.
C9_Witness ==
    /\ pc = "extracted"
    /\ mask_shape = <<3, 3>>
    /\ Len(records) = 2
    /\ records[1].size_px = 1
    /\ records[1].bbox = <<0, 0, 1, 1>>
    /\ records[2].size_px = 3
    /\ records[2].bbox = <<1, 1, 2, 2>>

\* C10: thresholding twice is thresholding once.  Line 64 turns every raw
\* element into 1 when it is > 0.5 and into 0 otherwise, and line 35 leaves
\* that grid as it is.
C10_BinarizeIdempotent ==
    /\ [][(pc = "read" /\ pc' = "binarized") =>
            /\ DOMAIN mask' = DOMAIN mask
            /\ \A p \in DOMAIN mask :
                  /\ mask'[p] \in {0, 1}
                  /\ (mask'[p] = 1) <=> (2 * mask[p] > RawDen)]_vars
    /\ [](Extracted =>
            /\ binary_mask = mask
            /\ \A p \in DOMAIN binary_mask : binary_mask[p] \in {0, 1})

\* A mask with foreground and background has been thresholded twice.
C10_Witness ==
    /\ pc = "extracted"
    /\ binary_mask = mask
    /\ \E p \in DOMAIN binary_mask : binary_mask[p] = 1
    /\ \E p \in DOMAIN binary_mask : binary_mask[p] = 0
    /\ Len(records) = 2
====
